---- MODULE Spec2Model ----
(***************************************************************************)
(* Modbus TCP simulator (tools/modbus_simulator.py).                       *)
(*                                                                         *)
(* The program builds a pymodbus slave context of four 100-entry blocks,   *)
(* starts a daemon thread (update_data) that rewrites holding registers    *)
(* 0..2, coil 0 and discrete input 0 once per second, and serves the       *)
(* context with pymodbus' StartTcpServer.  The data-block, slave-context   *)
(* and server operations below follow the pymodbus 3.x calls the script    *)
(* makes: ModbusSequentialDataBlock, ModbusSlaveContext (zero_mode False), *)
(* ModbusServerContext(single=True) and the asyncio TCP server.            *)
(*                                                                         *)
(* Floats drawn by random.uniform are represented in hundredths            *)
(* (2806 stands for 28.06).                                                *)
(***************************************************************************)
EXTENDS Integers, Sequences, FiniteSets, TLC

VARIABLES
    store,        \* bank -> Python list of the data block (1-based here)
    gpc,          \* position of the update_data thread
    temperature,  \* update_data local: temperature of the current tick
    humidity,     \* update_data local: humidity of the current tick
    pressure,     \* update_data local: pressure of the current tick
    conn,         \* connection -> "closed" | "open" | "aborted" (closed with an
                  \* incomplete frame in the receive buffer)
    inq,          \* connection -> frames received from the peer, not yet decoded
    cur,          \* connection -> frame being executed (NoFrame when idle)
    hpc,          \* connection -> "idle" | "exec" | "readback" | "maskset"
    out,          \* connection -> responses written, not yet read by the peer
    nsent,        \* connection -> complete frames the peer has written since it
                  \* last had nothing in flight
    nrecv,        \* connection -> responses the peer has read since then
    mem,          \* history: bank -> address -> value of the last completed write
    genLast,      \* history: holding address -> value last written by update_data
    coilw         \* history: who is the connection whose last request is the
                  \* latest write-single-coil of coil 0 to on (0 when there is
                  \* none); st is "stale" once something else wrote coil 0

vars == <<store, gpc, temperature, humidity, pressure, conn, inq, cur, hpc, out, nsent, nrecv,
          mem, genLast, coilw>>

----------------------------------------------------------------------------
(* Bounds of the model *)

MaxConn == 2        \* connections the listener is asked to serve
MaxInq == 1         \* frames and responses in flight over all connections
TidBase == 7        \* transaction id a peer gives its first frame in flight

Conns == 1..MaxConn

----------------------------------------------------------------------------
(* Data store: setup_data_store *)

BlockSize == 100
BlockAddress == 0
Banks == {"d", "c", "i", "h"}

Min(a, b) == IF a <= b THEN a ELSE b
Max(a, b) == IF a >= b THEN a ELSE b

\* Python list slice s[lo:hi] for 0 <= lo (indices clipped to the list)
PySlice(s, lo, hi) ==
    LET l == Min(lo, Len(s))
        h == Max(l, Min(hi, Len(s)))
    IN  [i \in 1..(h - l) |-> s[l + i]]

\* Python slice assignment s[lo:hi] = new
PySliceAssign(s, lo, hi, new) ==
    LET l == Min(lo, Len(s))
        h == Max(l, Min(hi, Len(s)))
    IN  PySlice(s, 0, l) \o new \o PySlice(s, h, Len(s))

\* ModbusSequentialDataBlock(0, [0] * 100)
NewBlock == [i \in 1..BlockSize |-> 0]

\* ModbusSlaveContext(di=di, co=co, hr=hr, ir=ir)
NewStore == [b \in Banks |-> NewBlock]

BlockValidateNoUpper(values, address, count) ==
    BlockAddress <= address

\* ModbusSequentialDataBlock.validate
BlockValidate(values, address, count) ==
    /\ BlockAddress <= address
    /\ BlockAddress + Len(values) >= address + count

BlockGetValuesShifted(values, address, count) ==
    LET start == address - BlockAddress + 1
    IN  PySlice(values, start, start + count)

\* ModbusSequentialDataBlock.getValues
BlockGetValues(values, address, count) ==
    LET start == address - BlockAddress
    IN  PySlice(values, start, start + count)

BlockSetValuesFirstOnly(values, address, new) ==
    LET start == address - BlockAddress
    IN  PySliceAssign(values, start, start + 1, PySlice(new, 0, 1))

BlockSetValuesShifted(values, address, new) ==
    LET start == address - BlockAddress + 1
    IN  PySliceAssign(values, start, start + Len(new), new)

\* ModbusSequentialDataBlock.setValues
BlockSetValues(values, address, new) ==
    LET start == address - BlockAddress
    IN  PySliceAssign(values, start, start + Len(new), new)

DecodeCoilsAsInputs(fc) ==
    CASE fc \in {1, 2, 5, 15} -> "d"
      [] fc \in {4} -> "i"
      [] fc \in {3, 6, 16, 22, 23} -> "h"

\* IModbusSlaveContext.decode: function code -> bank
Decode(fc) ==
    CASE fc \in {2} -> "d"
      [] fc \in {1, 5, 15} -> "c"
      [] fc \in {4} -> "i"
      [] fc \in {3, 6, 16, 22, 23} -> "h"

\* ModbusSlaveContext.validate / getValues / setValues (zero_mode is False:
\* the context addresses the block one past the request address)
SlaveValidate(st, fc, address, count) ==
    BlockValidate(st[Decode(fc)], address + 1, count)

SlaveGetValues(st, fc, address, count) ==
    BlockGetValues(st[Decode(fc)], address + 1, count)

SlaveSetValues(st, fc, address, new) ==
    [st EXCEPT ![Decode(fc)] = BlockSetValues(@, address + 1, new)]

\* slave_id = 0x01
slave_id == 1

\* ModbusServerContext(slaves=store, single=True): the one slave context is
\* kept under the default unit 0
ContextSlaves == {0}

ContextGetItemByUnit(unit) == unit

\* ModbusServerContext.__getitem__: in single mode every unit id is mapped to
\* the default unit
ContextGetItem(unit) == 0

\* context[unit] finds a slave context (else NoSuchSlaveException)
ContextHas(unit) == ContextGetItem(unit) \in ContextSlaves

----------------------------------------------------------------------------
(* History of completed writes, kept beside the store *)

Addrs == 0..(BlockSize - 1)

MemWrite(m, bank, address, new) ==
    [m EXCEPT ![bank] =
        [a \in Addrs |-> IF a >= address /\ a < address + Len(new)
                         THEN new[a - address + 1] ELSE @[a]]]

----------------------------------------------------------------------------
(* Value generator: update_data *)

TempSamples == {2806}             \* 28.06
HumSamples == {4005}              \* 40.05
PressSamples == {101325}          \* 1013.25
StatusChoices == {0, 1}           \* random.choice([0, 1])

\* int(x) of a non-negative float held in hundredths
IntOfCeil(h) == (h + 99) \div 100

IntOfRound(h) == (h + 50) \div 100

\* int(x) of a float x >= 0 given in hundredths: the fraction is dropped
IntOf(h) == h \div 100

\* temperature = random.uniform(20.0, 30.0); temp_value = int(temperature * 10)
\* context[slave_id].setValues(3, 0, [temp_value])
GenTempOf(samples) ==
    /\ gpc = "temp"
    /\ ContextHas(slave_id)
    /\ \E t \in samples :
         LET temp_value == IntOf(t * 10) IN
         /\ temperature' = t
         /\ store' = SlaveSetValues(store, 3, 0, <<temp_value>>)
         /\ mem' = MemWrite(mem, "h", 0, <<temp_value>>)
         /\ genLast' = [genLast EXCEPT ![0] = temp_value]
    /\ gpc' = "hum"
    /\ UNCHANGED <<humidity, pressure, conn, inq, cur, hpc, out, nsent, nrecv, coilw>>

GenTemp == GenTempOf(TempSamples)

\* humidity = random.uniform(40.0, 80.0); hum_value = int(humidity * 10)
\* context[slave_id].setValues(3, 1, [hum_value])
GenHumOf(samples) ==
    /\ gpc = "hum"
    /\ ContextHas(slave_id)
    /\ \E h \in samples :
         LET hum_value == IntOf(h * 10) IN
         /\ humidity' = h
         /\ store' = SlaveSetValues(store, 3, 1, <<hum_value>>)
         /\ mem' = MemWrite(mem, "h", 1, <<hum_value>>)
         /\ genLast' = [genLast EXCEPT ![1] = hum_value]
    /\ gpc' = "press"
    /\ UNCHANGED <<temperature, pressure, conn, inq, cur, hpc, out, nsent, nrecv, coilw>>

GenHum == GenHumOf(HumSamples)

\* pressure = random.uniform(1000.0, 1020.0); press_value = int(pressure)
\* context[slave_id].setValues(3, 2, [press_value])
GenPressOf(samples) ==
    /\ gpc = "press"
    /\ ContextHas(slave_id)
    /\ \E p \in samples :
         LET press_value == IntOf(p) IN
         /\ pressure' = p
         /\ store' = SlaveSetValues(store, 3, 2, <<press_value>>)
         /\ mem' = MemWrite(mem, "h", 2, <<press_value>>)
         /\ genLast' = [genLast EXCEPT ![2] = press_value]
    /\ gpc' = "status"
    /\ UNCHANGED <<temperature, humidity, conn, inq, cur, hpc, out, nsent, nrecv, coilw>>

GenPress == GenPressOf(PressSamples)

\* status = random.choice([0, 1]); context[slave_id].setValues(1, 0, [status])
GenStatus ==
    /\ gpc = "status"
    /\ ContextHas(slave_id)
    /\ \E status \in StatusChoices :
         /\ store' = SlaveSetValues(store, 1, 0, <<status>>)
         /\ mem' = MemWrite(mem, "c", 0, <<status>>)
    /\ coilw' = IF coilw.who # 0 THEN [coilw EXCEPT !.st = "stale"] ELSE coilw
    /\ gpc' = "alarm"
    /\ UNCHANGED <<temperature, humidity, pressure, conn, inq, cur, hpc, out, nsent, nrecv, genLast>>

AlarmAtThreshold(t) == IF t >= 2800 THEN 1 ELSE 0

\* 1 if temperature > 28.0 else 0
Alarm(t) == IF t > 2800 THEN 1 ELSE 0

\* alarm = 1 if temperature > 28.0 else 0
\* context[slave_id].setValues(2, 0, [alarm])
GenAlarm ==
    /\ gpc = "alarm"
    /\ ContextHas(slave_id)
    /\ LET alarm == Alarm(temperature) IN
         /\ store' = SlaveSetValues(store, 2, 0, <<alarm>>)
         /\ mem' = MemWrite(mem, "d", 0, <<alarm>>)
    /\ gpc' = "sleep"
    /\ UNCHANGED <<temperature, humidity, pressure, conn, inq, cur, hpc, out, nsent, nrecv, genLast, coilw>>

GenSleepExit ==
    /\ gpc = "sleep"
    /\ gpc' = "exit"
    /\ UNCHANGED <<store, temperature, humidity, pressure, conn, inq, cur, hpc, out, nsent, nrecv,
                   mem, genLast, coilw>>

\* log.info(...); time.sleep(1); next iteration of while True
GenSleep ==
    /\ gpc = "sleep"
    /\ gpc' = "temp"
    /\ UNCHANGED <<store, temperature, humidity, pressure, conn, inq, cur, hpc, out, nsent, nrecv,
                   mem, genLast, coilw>>

Generator == GenTemp \/ GenHum \/ GenPress \/ GenStatus \/ GenAlarm \/ GenSleep

----------------------------------------------------------------------------
(* Requests, frames and responses of the server started by StartTcpServer *)

NoPdu == [fc |-> 0, address |-> 0, count |-> 0, byte_count |-> 0, values |-> <<>>]

\* function 1..4: start address, count
ReadReq(fc, address, count) ==
    [fc |-> fc, address |-> address, count |-> count, byte_count |-> 0,
     values |-> <<>>]

\* function 5, 6: address, value
WriteSingleReq(fc, address, value) ==
    [fc |-> fc, address |-> address, count |-> 1, byte_count |-> 0,
     values |-> <<value>>]

\* function 15: address, count, byte count, bits
WriteCoilsReq(address, bits) ==
    [fc |-> 15, address |-> address, count |-> Len(bits),
     byte_count |-> (Len(bits) + 7) \div 8, values |-> bits]

\* function 16: address, count, byte count, registers
WriteRegistersReq(address, regs) ==
    [fc |-> 16, address |-> address, count |-> Len(regs),
     byte_count |-> 2 * Len(regs), values |-> regs]

\* function 22: mask write register (address, and mask, or mask)
MaskWriteReq(address, and_mask, or_mask) ==
    [fc |-> 22, address |-> address, count |-> 1, byte_count |-> 0,
     values |-> <<and_mask, or_mask>>]

\* function 23: read/write multiple registers (read address, read count,
\* write address, write count, write byte count, registers to write)
ReadWriteReq(read_address, read_count, write_address, regs) ==
    [fc |-> 23, address |-> read_address, count |-> read_count,
     byte_count |-> 2 * Len(regs), values |-> regs, write_address |-> write_address]

\* function 43, MEI type 14: read device identification (read code, object id)
DeviceInfoReq(read_code, object_id) ==
    [fc |-> 43, address |-> 0, count |-> 0, byte_count |-> 0,
     values |-> <<14, read_code, object_id>>]

\* a function code with no further payload
BareReq(fc) ==
    [fc |-> fc, address |-> 0, count |-> 0, byte_count |-> 0, values |-> <<>>]

\* bytes of function code + payload
PduSize(pdu) ==
    CASE pdu.fc \in {1, 2, 3, 4, 5, 6} -> 5
      [] pdu.fc \in {15, 16} -> 6 + pdu.byte_count
      [] pdu.fc = 22 -> 7
      [] pdu.fc = 23 -> 10 + pdu.byte_count
      [] pdu.fc = 43 -> 4
      [] OTHER -> 1

\* a complete frame: 7-byte MBAP header (length counts unit id + PDU) + PDU
\* (reg is the handler's local of function 22: the register value it read)
MkFrame(tid, pid, uid, pdu) ==
    [tid |-> tid, pid |-> pid, uid |-> uid, len |-> 1 + PduSize(pdu),
     have |-> 7 + PduSize(pdu), pdu |-> pdu, reg |-> 0]

NoFrame ==
    [tid |-> 0, pid |-> 0, uid |-> 0, len |-> 0, have |-> 0, pdu |-> NoPdu, reg |-> 0]

FrameReadyAlways(f) == TRUE

\* socket framer: a frame is processed once header and announced bytes are in
FrameReady(f) ==
    /\ f.have >= 7
    /\ f.have - 7 + 1 >= f.len

\* function codes in the server decoder's table
ServerFunctions == {1, 2, 3, 4, 5, 6, 7, 8, 11, 12, 15, 16, 17, 20, 21, 22, 23, 24, 43}

ExcCodePlain(fc) == fc

\* exception response function code: function code | 0x80
ExcCode(fc) == IF (fc \div 128) % 2 = 1 THEN fc ELSE fc + 128

\* request.execute(context): 0 when the request is served, else the exception
\* code: 1 illegal function, 2 illegal data address, 3 illegal data value
\* (11, gateway no response, when context[request.slave_id] finds no slave)
ExecStatus(st, pdu) ==
    CASE pdu.fc \notin ServerFunctions -> 1
      [] pdu.fc \in {1, 2} ->
            IF ~(1 <= pdu.count /\ pdu.count <= 2000) THEN 3
            ELSE IF ~SlaveValidate(st, pdu.fc, pdu.address, pdu.count) THEN 2
            ELSE 0
      [] pdu.fc \in {3, 4} ->
            IF ~(1 <= pdu.count /\ pdu.count <= 125) THEN 3
            ELSE IF ~SlaveValidate(st, pdu.fc, pdu.address, pdu.count) THEN 2
            ELSE 0
      [] pdu.fc \in {5, 6} ->
            IF ~SlaveValidate(st, pdu.fc, pdu.address, 1) THEN 2 ELSE 0
      [] pdu.fc = 15 ->
            IF ~(1 <= Len(pdu.values) /\ Len(pdu.values) <= 1968) THEN 3
            ELSE IF pdu.byte_count # (Len(pdu.values) + 7) \div 8 THEN 3
            ELSE IF ~SlaveValidate(st, pdu.fc, pdu.address, Len(pdu.values)) THEN 2
            ELSE 0
      [] pdu.fc = 16 ->
            IF ~(1 <= pdu.count /\ pdu.count <= 123) THEN 3
            ELSE IF pdu.byte_count # pdu.count * 2 THEN 3
            ELSE IF ~SlaveValidate(st, pdu.fc, pdu.address, pdu.count) THEN 2
            ELSE 0
      [] pdu.fc = 22 ->
            IF ~(0 <= pdu.values[1] /\ pdu.values[1] <= 65535) THEN 3
            ELSE IF ~(0 <= pdu.values[2] /\ pdu.values[2] <= 65535) THEN 3
            ELSE IF ~SlaveValidate(st, pdu.fc, pdu.address, 1) THEN 2
            ELSE 0
      [] pdu.fc = 23 ->
            IF ~(1 <= pdu.count /\ pdu.count <= 125) THEN 3
            ELSE IF ~(1 <= Len(pdu.values) /\ Len(pdu.values) <= 121) THEN 3
            ELSE IF pdu.byte_count # Len(pdu.values) * 2 THEN 3
            ELSE IF ~SlaveValidate(st, pdu.fc, pdu.write_address, Len(pdu.values)) THEN 2
            ELSE IF ~SlaveValidate(st, pdu.fc, pdu.address, pdu.count) THEN 2
            ELSE 0
      [] pdu.fc = 43 ->
            IF ~(0 <= pdu.values[2] /\ pdu.values[2] <= 4) THEN 3 ELSE 0

\* functions whose execute calls context.setValues first
WriteFirst == {5, 6, 15, 16, 23}

\* address a write request writes at
WriteAddress(pdu) == IF pdu.fc = 23 THEN pdu.write_address ELSE pdu.address

WriteValuesInverted(pdu) ==
    IF pdu.fc = 5 THEN <<IF pdu.values[1] = 65280 THEN 0 ELSE 1>> ELSE pdu.values

\* value stored by a write request
WriteValues(pdu) ==
    IF pdu.fc = 5 THEN <<IF pdu.values[1] = 65280 THEN 1 ELSE 0>> ELSE pdu.values

ResponseTidZero(f, fc, exc, address, count, byte_count, values) ==
    [tid |-> 0, uid |-> f.uid, fc |-> fc, exc |-> exc, address |-> address,
     count |-> count, byte_count |-> byte_count, values |-> values]

\* response.transaction_id = request.transaction_id
\* response.slave_id = request.slave_id
Response(f, fc, exc, address, count, byte_count, values) ==
    [tid |-> f.tid, uid |-> f.uid, fc |-> fc, exc |-> exc, address |-> address,
     count |-> count, byte_count |-> byte_count, values |-> values]

\* request.doException(code)
ExceptionResponse(f, code) == Response(f, ExcCode(f.pdu.fc), code, 0, 0, 0, <<>>)

ServedResponseCountBytes(st, f) ==
    LET p == f.pdu IN
    CASE p.fc \in {1, 2, 3, 4} ->
            Response(f, p.fc, 0, 0, 0, p.count,
                     SlaveGetValues(st, p.fc, p.address, p.count))
      [] p.fc \in {15, 16} ->
            Response(f, p.fc, 0, p.address, p.count, 0, <<>>)
      [] p.fc = 43 ->
            Response(f, p.fc, 0, 0, 0, 0, <<14, p.values[2]>>)

\* response of a served request that needs no read-back
ServedResponse(st, f) ==
    LET p == f.pdu IN
    CASE p.fc \in {1, 2} ->
            Response(f, p.fc, 0, 0, 0, (p.count + 7) \div 8,
                     SlaveGetValues(st, p.fc, p.address, p.count))
      [] p.fc \in {3, 4} ->
            Response(f, p.fc, 0, 0, 0, 2 * p.count,
                     SlaveGetValues(st, p.fc, p.address, p.count))
      [] p.fc \in {15, 16} ->
            Response(f, p.fc, 0, p.address, p.count, 0, <<>>)
      [] p.fc = 43 ->
            Response(f, p.fc, 0, 0, 0, 0, <<14, p.values[2]>>)

\* response of function 5, 6, 23: the values read back from the store
ReadBackResponse(st, f) ==
    LET p == f.pdu
        v == SlaveGetValues(st, p.fc, p.address, 1)[1]
    IN  IF p.fc = 23
        THEN Response(f, p.fc, 0, 0, 0, 2 * p.count,
                      SlaveGetValues(st, p.fc, p.address, p.count))
        ELSE Response(f, p.fc, 0, p.address, 0, 0,
                      <<IF p.fc = 5 THEN (IF v # 0 THEN 65280 ELSE 0) ELSE v>>)

\* a & b of two 16-bit values
RECURSIVE BitAnd(_, _, _)
BitAnd(a, b, bits) ==
    IF bits = 0 THEN 0
    ELSE (a % 2) * (b % 2) + 2 * BitAnd(a \div 2, b \div 2, bits - 1)

\* function 22: (values & and_mask) | (or_mask & ~and_mask)
MaskApply(v, and_mask, or_mask) ==
    BitAnd(v, and_mask, 16) + BitAnd(or_mask, 65535 - and_mask, 16)

----------------------------------------------------------------------------
(* Peers *)

TidOf(n) == (TidBase + n) % 65536

\* register traffic of the peers of the running system
RegisterPdus ==
    { ReadReq(3, 0, 3),
      WriteRegistersReq(1, <<7, 8>>) }

\* coil traffic of the peers of the running system
CoilPdus ==
    { WriteSingleReq(5, 0, 65280),
      ReadReq(1, 0, 1) }

MainPdus == RegisterPdus \cup CoilPdus

\* the listener accepts a connection
Accept(c) ==
    /\ conn[c] # "open"
    /\ conn' = [conn EXCEPT ![c] = "open"]
    /\ UNCHANGED <<store, gpc, temperature, humidity, pressure, inq, cur, hpc, out, nsent, nrecv,
                   mem, genLast, coilw>>

\* frames and responses in flight on connection c
Pending(c) ==
    Len(inq[c]) + Len(out[c]) + (IF hpc[c] = "idle" THEN 0 ELSE 1)

RECURSIVE TotalPending(_)
TotalPending(S) ==
    IF S = {} THEN 0
    ELSE LET c == CHOOSE x \in S : TRUE IN Pending(c) + TotalPending(S \ {c})

CanSend(c) ==
    /\ conn[c] = "open"
    /\ nrecv[c] = 0
    /\ TotalPending(Conns) < MaxInq
    /\ IF inq[c] = <<>> THEN TRUE ELSE FrameReady(inq[c][Len(inq[c])])

\* the peer writes one complete frame; it writes its frames back to back and
\* then reads the responses
ClientSend(c, pid, uid, pdu) ==
    /\ CanSend(c)
    /\ inq' = [inq EXCEPT ![c] = Append(@, MkFrame(TidOf(nsent[c]), pid, uid, pdu))]
    /\ nsent' = [nsent EXCEPT ![c] = @ + 1]
    /\ UNCHANGED <<store, gpc, temperature, humidity, pressure, conn, cur, hpc, out, nrecv, mem, genLast, coilw>>

\* the peer writes only the first have bytes of a frame
ClientSendPartial(c, pid, uid, pdu, have) ==
    /\ CanSend(c)
    /\ LET f == MkFrame(TidOf(nsent[c]), pid, uid, pdu) IN
         /\ have < f.have
         /\ inq' = [inq EXCEPT ![c] = Append(@, [f EXCEPT !.have = have])]
    /\ UNCHANGED <<store, gpc, temperature, humidity, pressure, conn, cur, hpc, out, nsent, nrecv,
                   mem, genLast, coilw>>

\* the peer reads one response
ClientRecv(c) ==
    /\ conn[c] = "open"
    /\ out[c] # <<>>
    /\ out' = [out EXCEPT ![c] = Tail(@)]
    /\ IF Pending(c) = 1
       THEN /\ nsent' = [nsent EXCEPT ![c] = 0]
            /\ nrecv' = [nrecv EXCEPT ![c] = 0]
       ELSE /\ nrecv' = [nrecv EXCEPT ![c] = @ + 1]
            /\ UNCHANGED nsent
    /\ UNCHANGED <<store, gpc, temperature, humidity, pressure, conn, inq, cur, hpc, mem, genLast, coilw>>

----------------------------------------------------------------------------
(* Server: one asyncio event loop runs every connection's callbacks *)

LoopIdle == \A d \in Conns : hpc[d] = "idle"

AdvanceFrameReset(q) == <<>>

\* the framer drops the frame it has handed over and keeps the rest of the buffer
AdvanceFrame(q) == Tail(q)

\* data_received: the framer hands the next complete frame to the handler
ServerReceive(c) ==
    /\ conn[c] = "open"
    /\ LoopIdle
    /\ inq[c] # <<>>
    /\ FrameReady(Head(inq[c]))
    /\ cur' = [cur EXCEPT ![c] = Head(inq[c])]
    /\ inq' = [inq EXCEPT ![c] = AdvanceFrame(@)]
    /\ hpc' = [hpc EXCEPT ![c] = "exec"]
    /\ UNCHANGED <<store, gpc, temperature, humidity, pressure, conn, out, nsent, nrecv, mem,
                   genLast, coilw>>

\* the response is written to the connection and the handler returns
Reply(c, r) ==
    /\ out' = [out EXCEPT ![c] = Append(@, r)]
    /\ cur' = [cur EXCEPT ![c] = NoFrame]
    /\ hpc' = [hpc EXCEPT ![c] = "idle"]

NoCoilWrite == [who |-> 0, st |-> "fresh"]

\* coil-0 bookkeeping when connection c executes request pdu
Touch(c, pdu) ==
    IF pdu = WriteSingleReq(5, 0, 65280) /\ ExecStatus(store, pdu) = 0
    THEN [who |-> c, st |-> "fresh"]
    ELSE IF coilw.who = c THEN NoCoilWrite
    ELSE IF coilw.who # 0 /\ pdu.fc \in {5, 15} /\ pdu.address = 0
            /\ ExecStatus(store, pdu) = 0
    THEN [coilw EXCEPT !.st = "stale"]
    ELSE coilw

\* has connection c written coil 0 to on with its last request
CoilWrite(c) == IF coilw.who = c THEN coilw.st ELSE "no"

ExecStoreEager(st, pdu, status) ==
    IF pdu.fc \in WriteFirst
    THEN SlaveSetValues(st, pdu.fc, WriteAddress(pdu), WriteValues(pdu))
    ELSE st

\* the store after the first step of request.execute(context): the checks come
\* before context.setValues
ExecStore(st, pdu, status) ==
    IF status = 0 /\ pdu.fc \in WriteFirst
    THEN SlaveSetValues(st, pdu.fc, WriteAddress(pdu), WriteValues(pdu))
    ELSE st

\* request.execute(context) up to the response, the read-back (function 5, 6,
\* 23) or the write of the masked value (function 22)
ServerExecute(c) ==
    /\ hpc[c] = "exec"
    /\ coilw' = Touch(c, cur[c].pdu)
    /\ LET f == cur[c]
           p == f.pdu
           status == IF ContextHas(f.uid) THEN ExecStatus(store, p) ELSE 11
       IN  /\ store' = ExecStore(store, p, status)
           /\ mem' = IF status = 0 /\ p.fc \in WriteFirst
                     THEN MemWrite(mem, Decode(p.fc), WriteAddress(p), WriteValues(p))
                     ELSE mem
           /\ IF status # 0
              THEN Reply(c, ExceptionResponse(f, status))
              ELSE IF p.fc \in {5, 6, 23}
              THEN /\ hpc' = [hpc EXCEPT ![c] = "readback"]
                   /\ UNCHANGED <<cur, out>>
              ELSE IF p.fc = 22
              THEN /\ cur' = [cur EXCEPT ![c].reg =
                                 SlaveGetValues(store, p.fc, p.address, 1)[1]]
                   /\ hpc' = [hpc EXCEPT ![c] = "maskset"]
                   /\ UNCHANGED out
              ELSE Reply(c, ServedResponse(store, f))
    /\ UNCHANGED <<gpc, temperature, humidity, pressure, conn, inq, nsent, nrecv, genLast>>

\* function 22: context.setValues(fc, address, [masked value]); return response
ServerMaskSet(c) ==
    /\ hpc[c] = "maskset"
    /\ LET f == cur[c]
           p == f.pdu
           v == MaskApply(f.reg, p.values[1], p.values[2])
       IN  /\ store' = SlaveSetValues(store, p.fc, p.address, <<v>>)
           /\ mem' = MemWrite(mem, Decode(p.fc), p.address, <<v>>)
           /\ Reply(c, Response(f, p.fc, 0, p.address, 0, 0, p.values))
    /\ UNCHANGED <<gpc, temperature, humidity, pressure, conn, inq, nsent, nrecv,
                   genLast, coilw>>

\* values = context.getValues(...); return the write-single response
ServerReadBack(c) ==
    /\ hpc[c] = "readback"
    /\ Reply(c, ReadBackResponse(store, cur[c]))
    /\ UNCHANGED <<store, gpc, temperature, humidity, pressure, conn, inq, nsent, nrecv, mem,
                   genLast, coilw>>

\* is an incomplete frame waiting in the receive buffer of c
MidFrame(c) == IF inq[c] = <<>> THEN FALSE ELSE ~FrameReady(inq[c][Len(inq[c])])

CloseAll(cn, c, how) == [d \in Conns |-> IF cn[d] = "open" THEN how ELSE cn[d]]

\* connection_lost: only this connection's handler is torn down
CloseOne(cn, c, how) == [cn EXCEPT ![c] = how]

\* the peer closes the connection, or a send/receive on it fails
ConnectionLost(c) ==
    /\ conn[c] = "open"
    /\ LoopIdle
    /\ conn' = CloseOne(conn, c, IF MidFrame(c) THEN "aborted" ELSE "closed")
    /\ inq' = [inq EXCEPT ![c] = <<>>]
    /\ out' = [out EXCEPT ![c] = <<>>]
    /\ nsent' = [nsent EXCEPT ![c] = 0]
    /\ nrecv' = [nrecv EXCEPT ![c] = 0]
    /\ coilw' = IF coilw.who = c THEN NoCoilWrite ELSE coilw
    /\ UNCHANGED <<store, gpc, temperature, humidity, pressure, cur, hpc, mem, genLast>>

----------------------------------------------------------------------------
(* The running system: update_data thread + server, with peers that read and
   write holding registers (Spec) or coil 0 (SpecC).  The register traffic has
   no write-single request, so the read-back step of functions 5 and 6 does not
   occur in Spec. *)

Init ==
    /\ store = NewStore
    /\ gpc = "temp"
    /\ temperature = 0
    /\ humidity = 0
    /\ pressure = 0
    /\ conn = [c \in Conns |-> "closed"]
    /\ inq = [c \in Conns |-> <<>>]
    /\ cur = [c \in Conns |-> NoFrame]
    /\ hpc = [c \in Conns |-> "idle"]
    /\ out = [c \in Conns |-> <<>>]
    /\ nsent = [c \in Conns |-> 0]
    /\ nrecv = [c \in Conns |-> 0]
    /\ mem = [b \in Banks |-> [a \in Addrs |-> 0]]
    /\ genLast = [a \in 0..2 |-> 0]
    /\ coilw = NoCoilWrite

Next ==
    \/ Generator
    \/ \E c \in Conns : Accept(c)
    \/ \E c \in Conns, pdu \in RegisterPdus : ClientSend(c, 0, 1, pdu)
    \/ \E c \in Conns : ClientRecv(c)
    \/ \E c \in Conns : ServerReceive(c)
    \/ \E c \in Conns : ServerExecute(c)
    \/ \E c \in Conns : ConnectionLost(c)

Spec == Init /\ [][Next]_vars

NextC ==
    \/ Generator
    \/ \E c \in Conns : Accept(c)
    \/ \E c \in Conns, pdu \in CoilPdus : ClientSend(c, 0, 1, pdu)
    \/ \E c \in Conns : ClientSendPartial(c, 0, 1, ReadReq(1, 0, 1), 3)
    \/ \E c \in Conns : ClientRecv(c)
    \/ \E c \in Conns : ServerReceive(c)
    \/ \E c \in Conns : ServerExecute(c)
    \/ \E c \in Conns : ServerReadBack(c)
    \/ \E c \in Conns : ConnectionLost(c)

SpecC == Init /\ [][NextC]_vars

\* ---- the generator thread alone, values over the whole of their ranges ----

\* values of random.uniform(20.0, 30.0), in hundredths: the ends of the range,
\* the alarm threshold and its neighbours, fractions below, at and above a half
WideTemps == {2000, 2799, 2800, 2805, 2806, 2815, 2999}

\* values of random.uniform(40.0, 80.0), in hundredths
WideHums == {4000, 4005, 4006, 7999}

\* values of random.uniform(1000.0, 1020.0), in hundredths
WidePress == {100000, 101325, 101999}

NextG ==
    \/ GenTempOf(WideTemps)
    \/ GenHumOf(WideHums)
    \/ GenPressOf(WidePress)
    \/ GenStatus
    \/ GenAlarm
    \/ GenSleep

SpecG == Init /\ [][NextG]_vars

\* ---- the running system under fair scheduling ----

\* two peers connect
LivePeers == {1, 2}

\* the generator thread is scheduled again and again (it only ever waits in
\* time.sleep(1)); the event loop runs a started handler to its end and calls
\* data_received for every connection that keeps having a complete frame
Fairness ==
    /\ WF_vars(Generator)
    /\ \A c \in LivePeers : SF_vars(ServerReceive(c))
    /\ WF_vars(\E c \in LivePeers : ServerExecute(c))

\* the peers read the holding registers the generator writes
NextL ==
    \/ Generator
    \/ \E c \in LivePeers : Accept(c)
    \/ \E c \in LivePeers : ClientSend(c, 0, 1, ReadReq(3, 0, 3))
    \/ \E c \in LivePeers : ClientRecv(c)
    \/ \E c \in LivePeers : ServerReceive(c)
    \/ \E c \in LivePeers : ServerExecute(c)
    \/ \E c \in LivePeers : ConnectionLost(c)

SpecL == Init /\ [][NextL]_vars /\ Fairness

----------------------------------------------------------------------------
(* The server alone: one connection with received frames, no generator tick *)

\* the store after the first complete tick of update_data
TickStore ==
    LET s1 == SlaveSetValues(NewStore, 3, 0, <<280>>)
        s2 == SlaveSetValues(s1, 3, 1, <<400>>)
        s3 == SlaveSetValues(s2, 3, 2, <<1013>>)
        s4 == SlaveSetValues(s3, 1, 0, <<1>>)
    IN  SlaveSetValues(s4, 2, 0, <<1>>)

MemOf(st) ==
    [b \in Banks |-> [a \in Addrs |-> IF a + 2 <= Len(st[b]) THEN st[b][a + 2] ELSE 0]]

ManyRegs == [i \in 1..124 |-> 7]

DPdus ==
    { ReadReq(fc, a, n) : fc \in {1, 2, 3, 4}, a \in {0, 95, 98, 99, 100},
                          n \in {0, 1, 3, 10, 126, 2001} }
    \cup { WriteSingleReq(fc, a, v) : fc \in {5, 6}, a \in {0, 98, 99, 100},
                                      v \in {65280, 0} }
    \cup { WriteCoilsReq(a, b) : a \in {0, 96, 98, 99}, b \in {<<>>, <<1>>, <<1, 0, 1>>} }
    \cup { WriteRegistersReq(a, r) : a \in {0, 96, 98, 99},
                                     r \in {<<>>, <<7>>, <<7, 8, 9>>, ManyRegs} }
    \cup { MaskWriteReq(a, m[1], m[2]) : a \in {0, 98, 99},
                                         m \in {<<0, 5>>, <<65535, 0>>, <<240, 37>>} }
    \cup { ReadWriteReq(ra, rc, wa, r) : ra \in {0, 98}, rc \in {1, 126}, wa \in {1, 98},
                                         r \in {<<7>>, <<7, 8, 9>>} }
    \cup { DeviceInfoReq(1, 0), BareReq(9), BareReq(100) }

DPids == {0, 1}

DUids == {0, 1, 2, 255}

InitD ==
    /\ store \in {NewStore, TickStore}
    /\ mem = MemOf(store)
    /\ genLast = [a \in 0..2 |-> mem["h"][a]]
    /\ gpc = "temp"
    /\ temperature = 0
    /\ humidity = 0
    /\ pressure = 0
    /\ conn = [c \in Conns |-> IF c = 1 THEN "open" ELSE "closed"]
    /\ cur = [c \in Conns |-> NoFrame]
    /\ hpc = [c \in Conns |-> "idle"]
    /\ out = [c \in Conns |-> <<>>]
    /\ nrecv = [c \in Conns |-> 0]
    /\ coilw = NoCoilWrite
    /\ \E pdu \in DPdus, pid \in DPids, uid \in DUids :
         LET f == MkFrame(TidOf(0), pid, uid, pdu) IN
         /\ uid = 1 \/ (pdu \in MainPdus /\ pid = 0)
         /\ \/ /\ inq = [c \in Conns |-> IF c = 1 THEN <<f>> ELSE <<>>]
               /\ nsent = [c \in Conns |-> IF c = 1 THEN 1 ELSE 0]
            \/ \E pdu2 \in MainPdus :
                 /\ inq = [c \in Conns |->
                             IF c = 1 THEN <<f, MkFrame(TidOf(1), 0, 1, pdu2)>>
                                      ELSE <<>>]
                 /\ nsent = [c \in Conns |-> IF c = 1 THEN 2 ELSE 0]
            \/ \E have \in {3, f.have - 1} :
                 /\ pdu \in MainPdus
                 /\ inq = [c \in Conns |->
                             IF c = 1 THEN <<[f EXCEPT !.have = have]>> ELSE <<>>]
                 /\ nsent = [c \in Conns |-> 0]

NextD ==
    \/ \E c \in Conns : ClientRecv(c)
    \/ \E c \in Conns : ServerReceive(c)
    \/ \E c \in Conns : ServerExecute(c)
    \/ \E c \in Conns : ServerReadBack(c)
    \/ \E c \in Conns : ServerMaskSet(c)
    \/ \E c \in Conns : ConnectionLost(c)

SpecD == InitD /\ [][NextD]_vars

\* ---- the server and the generator thread: any request, a running generator ----

\* a temperature below and one above the alarm threshold
AlarmTemps == {2750, 2806}

\* update_data with both outcomes of the alarm
GeneratorAlarm ==
    GenTempOf(AlarmTemps) \/ GenHum \/ GenPress \/ GenStatus \/ GenAlarm \/ GenSleep

NextDG == NextD \/ GeneratorAlarm

\* one complete request is waiting when the generator starts
InitDG ==
    /\ InitD
    /\ store = TickStore
    /\ nsent[1] = 1

SpecDG == InitDG /\ [][NextDG]_vars

----------------------------------------------------------------------------
(* The register store alone: one setValues followed by one getValues *)

StoreOp(fc, address, values) ==
    [fc |-> fc, address |-> address, count |-> Len(values), byte_count |-> 0,
     values |-> values]

StoreOps ==
    { StoreOp(fc, a, v) : fc \in {1, 2, 3, 4}, a \in {0, 1, 50, 97, 98, 99, 100, 101},
                          v \in {<<1>>, <<1, 0>>, <<5, 6, 7>>} }

InitS ==
    /\ store \in {NewStore, TickStore}
    /\ mem = MemOf(store)
    /\ genLast = [a \in 0..2 |-> mem["h"][a]]
    /\ gpc = "temp"
    /\ temperature = 0
    /\ humidity = 0
    /\ pressure = 0
    /\ conn = [c \in Conns |-> "closed"]
    /\ inq = [c \in Conns |-> <<>>]
    /\ \E op \in StoreOps :
         cur = [c \in Conns |-> IF c = 1 THEN MkFrame(0, 0, 1, op) ELSE NoFrame]
    /\ hpc = [c \in Conns |-> IF c = 1 THEN "set" ELSE "idle"]
    /\ out = [c \in Conns |-> <<>>]
    /\ nsent = [c \in Conns |-> 0]
    /\ nrecv = [c \in Conns |-> 0]
    /\ coilw = NoCoilWrite

\* context[slave_id].setValues(fc, address, values)
StoreSet(c) ==
    /\ hpc[c] = "set"
    /\ store' = SlaveSetValues(store, cur[c].pdu.fc, cur[c].pdu.address,
                               cur[c].pdu.values)
    /\ hpc' = [hpc EXCEPT ![c] = "get"]
    /\ UNCHANGED <<gpc, temperature, humidity, pressure, conn, inq, cur, out, nsent, nrecv, mem,
                   genLast, coilw>>

\* context[slave_id].getValues(fc, address, count)
StoreGet(c) ==
    /\ hpc[c] = "get"
    /\ out' = [out EXCEPT ![c] =
                 <<Response(cur[c], cur[c].pdu.fc, 0, cur[c].pdu.address,
                            cur[c].pdu.count, 0,
                            SlaveGetValues(store, cur[c].pdu.fc, cur[c].pdu.address,
                                           cur[c].pdu.count))>>]
    /\ hpc' = [hpc EXCEPT ![c] = "idle"]
    /\ UNCHANGED <<store, gpc, temperature, humidity, pressure, conn, inq, cur, nsent, nrecv, mem,
                   genLast, coilw>>

NextS ==
    \/ \E c \in Conns : StoreSet(c)
    \/ \E c \in Conns : StoreGet(c)

SpecS == InitS /\ [][NextS]_vars

----------------------------------------------------------------------------
(* The codec alone: the socket framer packs one message and unpacks the bytes *)

\* struct.pack(">H", n)
PackH(n) == <<(n \div 256) % 256, n % 256>>

\* struct.unpack(">H", b[i:i+2])
UnpackH(b, i) == b[i] * 256 + b[i + 1]

\* a message: MBAP fields, function code and the bytes of message.encode()
Message(tid, pid, uid, fc, data) ==
    [tid |-> tid, pid |-> pid, uid |-> uid, fc |-> fc, data |-> data]

BuildPacketShortLength(m) ==
    PackH(m.tid) \o PackH(m.pid) \o PackH(Len(m.data) + 1)
        \o <<m.uid % 256, m.fc % 256>> \o m.data

\* buildPacket: struct.pack(">HHHBB", transaction_id, protocol_id,
\* len(data) + 2, slave_id, function_code) + data
BuildPacket(m) ==
    PackH(m.tid) \o PackH(m.pid) \o PackH(Len(m.data) + 2)
        \o <<m.uid % 256, m.fc % 256>> \o m.data

\* checkFrame on the received bytes
PacketReady(b) ==
    /\ Len(b) > 7
    /\ Len(b) - 7 + 1 >= UnpackH(b, 5)

\* decode_data (">HHHBB") and getFrame: buffer[7 : 7 + len - 1]
DecodePacket(b) ==
    LET length == UnpackH(b, 5)
        frame == SubSeq(b, 8, 6 + length)
    IN  [tid |-> UnpackH(b, 1), pid |-> UnpackH(b, 3), len |-> length,
         uid |-> b[7], fc |-> frame[1], data |-> Tail(frame)]

CodecTids == {0, 7, 255, 256, 4660, 65535}
CodecUids == {0, 1, 17, 255}
CodecFcs == {1, 3, 16, 43, 131, 255}
CodecData == {<<>>, <<2>>, <<0, 0, 0, 3>>, <<255, 0>>, <<0, 1, 0, 2, 4, 0, 7, 0, 8>>}

InitK ==
    /\ store = NewStore
    /\ mem = MemOf(store)
    /\ genLast = [a \in 0..2 |-> 0]
    /\ gpc = "temp"
    /\ temperature = 0
    /\ humidity = 0
    /\ pressure = 0
    /\ conn = [c \in Conns |-> IF c = 1 THEN "open" ELSE "closed"]
    /\ inq = [c \in Conns |-> <<>>]
    /\ \E tid \in CodecTids, uid \in CodecUids, fc \in CodecFcs, data \in CodecData :
         cur = [c \in Conns |-> IF c = 1 THEN Message(tid, 0, uid, fc, data)
                                          ELSE NoFrame]
    /\ hpc = [c \in Conns |-> IF c = 1 THEN "encode" ELSE "idle"]
    /\ out = [c \in Conns |-> <<>>]
    /\ nsent = [c \in Conns |-> 0]
    /\ nrecv = [c \in Conns |-> 0]
    /\ coilw = NoCoilWrite

\* the message cur[c] is packed and its bytes are put on the connection
CodecEncode(c) ==
    /\ hpc[c] = "encode"
    /\ inq' = [inq EXCEPT ![c] = <<BuildPacket(cur[c])>>]
    /\ hpc' = [hpc EXCEPT ![c] = "decode"]
    /\ UNCHANGED <<store, gpc, temperature, humidity, pressure, conn, cur, out,
                   nsent, nrecv, mem, genLast, coilw>>

\* the bytes are unpacked on the other side
CodecDecode(c) ==
    /\ hpc[c] = "decode"
    /\ PacketReady(inq[c][1])
    /\ out' = [out EXCEPT ![c] = <<DecodePacket(inq[c][1])>>]
    /\ hpc' = [hpc EXCEPT ![c] = "idle"]
    /\ UNCHANGED <<store, gpc, temperature, humidity, pressure, conn, inq, cur,
                   nsent, nrecv, mem, genLast, coilw>>

NextK ==
    \/ \E c \in Conns : CodecEncode(c)
    \/ \E c \in Conns : CodecDecode(c)

SpecK == InitK /\ [][NextK]_vars

----------------------------------------------------------------------------
(* Properties *)

\* positions of a handler that is executing a request
Handling == {"exec", "readback", "maskset"}

\* the step in which the handler of connection c writes its response
Answers(c) ==
    /\ hpc[c] \in Handling
    /\ hpc'[c] = "idle"
    /\ Len(out'[c]) = Len(out[c]) + 1

\* the response written in that step
Rsp(c) == out'[c][Len(out'[c])]

\* the count a request addresses
SpanOf(pdu) == IF pdu.fc \in {5, 6} THEN 1 ELSE pdu.count

\* C1: a write of values at an address with address + count <= 100, followed
\* by a read of the same address and count with nothing in between, returns
\* exactly the written values in the same order (every bank).
C1_RoundTrip ==
    [][\A c \in Conns :
          (/\ hpc[c] = "get"
           /\ hpc'[c] = "idle"
           /\ cur[c].pdu.address + cur[c].pdu.count <= 100)
          => out'[c][1].values = cur[c].pdu.values]_vars

C1_Witness ==
    \E c \in Conns :
        /\ hpc[c] = "idle"
        /\ out[c] # <<>>
        /\ cur[c].pdu.fc = 2
        /\ cur[c].pdu.address = 98
        /\ cur[c].pdu.values = <<1, 0>>
        /\ out[c][1].values = <<1, 0>>

ReadWriteFunctions == {1, 2, 3, 4, 5, 6, 15, 16}

\* the quantity field of a request is within the limit of its function
QuantityLegal(pdu) ==
    CASE pdu.fc \in {1, 2} -> pdu.count >= 1 /\ pdu.count <= 2000
      [] pdu.fc \in {3, 4} -> pdu.count >= 1 /\ pdu.count <= 125
      [] pdu.fc \in {5, 6} -> TRUE
      [] pdu.fc = 15 -> pdu.count >= 1 /\ pdu.count <= 1968
      [] pdu.fc = 16 -> pdu.count >= 1 /\ pdu.count <= 123

IsException(r, f, code) ==
    /\ r.fc = f.pdu.fc + 128
    /\ r.exc = code
    /\ r.tid = f.tid

C3_Original ==
    [][\A c \in Conns :
          (Answers(c) /\ cur[c].pdu.fc \notin ReadWriteFunctions)
          => IsException(Rsp(c), cur[c], 1)]_vars

\* C3 amended: every request whose function code is not in the server's
\* function table (1-8, 11, 12, 15-17, 20-24, 43) is answered with function
\* code | 0x80, exception code 1 and the request's transaction id; a read
\* device identification request (function 43, MEI type 14) is served.
C3_Unsupported ==
    [][\A c \in Conns :
          Answers(c)
          => /\ cur[c].pdu.fc \notin
                  {1, 2, 3, 4, 5, 6, 7, 8, 11, 12, 15, 16, 17, 20, 21, 22, 23, 24, 43}
                => IsException(Rsp(c), cur[c], 1)
             /\ cur[c].pdu = DeviceInfoReq(1, 0)
                => (Rsp(c).fc = 43 /\ Rsp(c).exc = 0 /\ Rsp(c).tid = cur[c].tid)]_vars

\* function 9 answered 0x89 / 1
C3_Witness ==
    \E c \in Conns :
        /\ out[c] # <<>>
        /\ out[c][1].fc = 137
        /\ out[c][1].exc = 1
        /\ out[c][1].tid = TidOf(nrecv[c])

\* complete frames waiting in the receive buffer of c
Waiting(c) == Cardinality({i \in 1..Len(inq[c]) : inq[c][i].have >= 6 + inq[c][i].len})

\* C4: on every connection each complete request frame gets exactly one
\* response, the response carries the transaction id of its request, and
\* responses are written in the order the requests were decoded.
C4_OneResponseInOrder ==
    \A c \in Conns :
        conn[c] = "open" =>
            /\ \A i \in 1..Len(out[c]) : out[c][i].tid = TidOf(nrecv[c] + i - 1)
            /\ hpc[c] \in Handling
                 => cur[c].tid = TidOf(nrecv[c] + Len(out[c]))
            /\ nrecv[c] + Len(out[c]) + Waiting(c)
                 + (IF hpc[c] \in Handling THEN 1 ELSE 0) = nsent[c]

\* an exception response and a normal response queued in request order
C4_Witness ==
    \E c \in Conns :
        /\ Len(out[c]) = 2
        /\ out[c][1].exc # 0
        /\ out[c][2].exc = 0
        /\ out[c][1].tid = TidOf(0)
        /\ out[c][2].tid = TidOf(1)

\* C5: under any interleaving of update_data and the sessions, every bank is
\* at every instant the result of the complete writes made so far, so a read
\* (one slice of the bank taken in one step) never observes part of a write:
\* neither a half-written value of holding register 0 nor part of another
\* session's write of several registers or coils.
C5_NoPartialWrite ==
    \A b \in Banks :
        /\ Len(store[b]) = BlockSize
        /\ \A a \in 0..(BlockSize - 2) : store[b][a + 2] = mem[b][a]

\* holding registers 0..2 read between two writes of a tick, after a session's
\* write of registers 1 and 2
C5_Witness ==
    \E c \in Conns :
        /\ out[c] # <<>>
        /\ out[c][1].fc = 3
        /\ out[c][1].values = <<280, 7, 8>>
        /\ gpc = "hum"

\* C6: a read that starts after a write to an address has completed returns,
\* for that address, the value of the latest completed write (by update_data
\* or by any session), never an earlier value.
C6_ReadSeesLatestWrite ==
    [][\A c \in Conns :
          (/\ Answers(c)
           /\ cur[c].pdu.fc \in {1, 2, 3, 4}
           /\ Rsp(c).exc = 0)
          => /\ Len(Rsp(c).values) = cur[c].pdu.count
             /\ \A i \in 1..cur[c].pdu.count :
                   Rsp(c).values[i] = mem[Decode(cur[c].pdu.fc)][cur[c].pdu.address + i - 1]]_vars

\* holding registers read after a session wrote 7, 8 over update_data's values
\* of registers 1, 2 and update_data wrote the pressure over the 8
C6_Witness ==
    \E c \in Conns :
        /\ out[c] # <<>>
        /\ out[c][1].fc = 3
        /\ out[c][1].values = <<280, 7, 1013>>
        /\ gpc = "status"

WriteCoilOn == WriteSingleReq(5, 0, 65280)

CoilEcho(r, f) ==
    /\ r.fc = 5
    /\ r.exc = 0
    /\ r.tid = f.tid
    /\ r.address = 0
    /\ r.values = <<65280>>

\* C7 as stated: with update_data running, the response to write single coil
\* (address 0, value 0xFF00) echoes the request and the next read coils
\* (address 0, count 1) on that connection returns the bit set to 1.
C7_Original ==
    [][\A c \in Conns :
          Answers(c)
          => /\ cur[c].pdu = WriteCoilOn => CoilEcho(Rsp(c), cur[c])
             /\ (cur[c].pdu = ReadReq(1, 0, 1) /\ CoilWrite(c) \in {"fresh", "stale"})
                => (Rsp(c).exc = 0 /\ Rsp(c).values = <<1>>)]_vars

\* C7 amended: the same, provided nothing else (a tick of update_data, which
\* rewrites coil 0, or another session) writes coil 0 between the execution of
\* the write and the response, respectively the read.
C7_EchoAndReadUnlessOverwritten ==
    [][\A c \in Conns :
          Answers(c)
          => /\ (cur[c].pdu = WriteCoilOn /\ CoilWrite(c) = "fresh")
                => CoilEcho(Rsp(c), cur[c])
             /\ (cur[c].pdu = ReadReq(1, 0, 1) /\ CoilWrite(c) = "fresh")
                => (Rsp(c).exc = 0 /\ Rsp(c).values = <<1>>)]_vars

\* the read coils that follows the coil write has been answered with 1 while
\* update_data is about to write coil 0
C7_Witness ==
    \E c \in Conns :
        /\ out[c] # <<>>
        /\ out[c][1].fc = 1
        /\ out[c][1].values = <<1>>
        /\ mem["c"][0] = 1
        /\ gpc = "status"

\* C8 as stated: read holding registers (start 0, count 3) returns function 3,
\* the request's transaction id, byte count 6 and the three values last
\* written by update_data to holding registers 0, 1 and 2.
C8_Original ==
    [][\A c \in Conns :
          (Answers(c) /\ cur[c].pdu = ReadReq(3, 0, 3))
          => /\ Rsp(c).fc = 3
             /\ Rsp(c).exc = 0
             /\ Rsp(c).tid = cur[c].tid
             /\ Rsp(c).byte_count = 6
             /\ Rsp(c).values = <<genLast[0], genLast[1], genLast[2]>>]_vars

\* C8 amended: ... and the three values last written to holding registers 0,
\* 1 and 2, by update_data or by a client's write request (0 for a register
\* never written).
C8_ReadHolding ==
    [][\A c \in Conns :
          (Answers(c) /\ cur[c].pdu = ReadReq(3, 0, 3))
          => /\ Rsp(c).fc = 3
             /\ Rsp(c).exc = 0
             /\ Rsp(c).tid = cur[c].tid
             /\ Rsp(c).byte_count = 6
             /\ Rsp(c).values = <<mem["h"][0], mem["h"][1], mem["h"][2]>>]_vars

\* registers 0 and 1 as written by update_data, register 2 as written by a client
C8_Witness ==
    \E c \in Conns :
        /\ out[c] # <<>>
        /\ out[c][1].fc = 3
        /\ out[c][1].byte_count = 6
        /\ out[c][1].values = <<280, 400, 8>>
        /\ genLast[2] = 1013

\* C9 as stated: a frame that is incomplete when the stream ends, or whose
\* header carries a protocol id other than 0, is never dispatched: no response
\* is sent for it and it does not change the store.
C9_Original ==
    \A c \in Conns :
        hpc[c] \in Handling
        => (cur[c].have >= 6 + cur[c].len /\ cur[c].pid = 0)

\* C9 amended: when the stream ends before a complete header or payload has
\* been read, the connection is closed without a response for the incomplete
\* frame and without a change of the store; an incomplete frame is never
\* dispatched (a complete frame with a protocol id other than 0 is).
C9_Truncated ==
    [][\A c \in Conns :
          /\ hpc'[c] \in Handling => cur'[c].have >= 6 + cur'[c].len
          /\ (conn[c] = "open" /\ conn'[c] = "aborted")
             => (store' = store /\ Len(out'[c]) <= Len(out[c]) /\ nrecv'[c] = 0)]_vars

C9_Witness ==
    \E c \in Conns :
        /\ conn[c] = "aborted"
        /\ out[c] = <<>>
        /\ store = TickStore

\* C10: the failure or closure of one connection ends only that session:
\* every other connection, its buffered frames and responses and its handler
\* are left as they are, update_data is not affected, and the listener can
\* accept a connection again.
C10_Isolation ==
    /\ [](\A c \in Conns : conn[c] # "open" => ENABLED Accept(c))
    /\ [][\A c \in Conns :
            (conn[c] = "open" /\ conn'[c] # "open")
            => /\ \A d \in Conns \ {c} :
                     /\ conn'[d] = conn[d]
                     /\ inq'[d] = inq[d]
                     /\ out'[d] = out[d]
                     /\ cur'[d] = cur[d]
                     /\ hpc'[d] = hpc[d]
               /\ gpc' = gpc
               /\ store' = store]_vars

\* one connection was closed mid-frame, another one is being served and
\* update_data is in the middle of a tick
C10_Witness ==
    \E c, d \in Conns :
        /\ conn[c] = "aborted"
        /\ conn[d] = "open"
        /\ hpc[d] = "exec"
        /\ gpc = "press"

\* C11: packing a valid message (protocol id 0, 16-bit transaction id, 8-bit
\* unit id, any function code and payload) and unpacking the bytes gives the
\* same transaction id, unit id, function code and payload, and the length
\* field on the wire is 1 + the number of bytes of function code and payload.
C11_CodecRoundTrip ==
    \A c \in Conns :
        /\ hpc[c] = "decode"
           => /\ Len(inq[c][1]) = 7 + 1 + Len(cur[c].data)
              /\ inq[c][1][5] * 256 + inq[c][1][6] = 1 + (1 + Len(cur[c].data))
        /\ (hpc[c] = "idle" /\ out[c] # <<>>)
           => /\ out[c][1].tid = cur[c].tid
              /\ out[c][1].pid = 0
              /\ out[c][1].uid = cur[c].uid
              /\ out[c][1].fc = cur[c].fc
              /\ out[c][1].data = cur[c].data
              /\ out[c][1].len = 1 + (1 + Len(cur[c].data))

\* transaction id 0x1234, unit 255, function 16 with a 9-byte payload unpacked
C11_Witness ==
    \E c \in Conns :
        /\ hpc[c] = "idle"
        /\ out[c] # <<>>
        /\ inq[c] = <<<<18, 52, 0, 0, 0, 11, 255, 16, 0, 1, 0, 2, 4, 0, 7, 0, 8>>>>
        /\ out[c][1].tid = 4660
        /\ out[c][1].data = <<0, 1, 0, 2, 4, 0, 7, 0, 8>>

\* payload of a response: everything but transaction id and unit id
PayloadOf(r) ==
    [fc |-> r.fc, exc |-> r.exc, address |-> r.address, count |-> r.count,
     byte_count |-> r.byte_count, values |-> r.values]

\* what a request of the peers' traffic is answered with, given the values
\* last written (m); stated without the unit id
AnswerOf(pdu, m) ==
    CASE pdu = ReadReq(3, 0, 3) ->
            [fc |-> 3, exc |-> 0, address |-> 0, count |-> 0, byte_count |-> 6,
             values |-> <<m["h"][0], m["h"][1], m["h"][2]>>]
      [] pdu = ReadReq(1, 0, 1) ->
            [fc |-> 1, exc |-> 0, address |-> 0, count |-> 0, byte_count |-> 1,
             values |-> <<m["c"][0]>>]
      [] pdu = WriteSingleReq(5, 0, 65280) ->
            [fc |-> 5, exc |-> 0, address |-> 0, count |-> 0, byte_count |-> 0,
             values |-> <<65280>>]
      [] pdu = WriteRegistersReq(1, <<7, 8>>) ->
            [fc |-> 16, exc |-> 0, address |-> 1, count |-> 2, byte_count |-> 0,
             values |-> <<>>]

\* the store a request of the peers' traffic leaves; stated without the unit id
StoreAfter(pdu, st) ==
    CASE pdu = WriteSingleReq(5, 0, 65280) -> [st EXCEPT !["c"][2] = 1]
      [] pdu = WriteRegistersReq(1, <<7, 8>>) -> [st EXCEPT !["h"][3] = 7, !["h"][4] = 8]
      [] OTHER -> st

HandlerStep(c) == hpc[c] \in Handling /\ hpc'[c] # hpc[c]

\* the request handled on connection c is on its way to a normal response
NormalPath(c) ==
    \/ hpc'[c] \in {"readback", "maskset"}
    \/ Answers(c) /\ Rsp(c).exc = 0

\* the store changes only in a handler step of a request whose function is in W
\* and which is answered normally; requests with another function, and requests
\* answered with an exception response, leave the four banks as they were
ChangesOnlyBy(W) ==
    /\ store' # store
        => \E c \in Conns : /\ HandlerStep(c)
                             /\ hpc[c] \in {"exec", "maskset"}
                             /\ cur[c].pdu.fc \in W
                             /\ NormalPath(c)
    /\ \A c \in Conns :
          /\ (HandlerStep(c) /\ cur[c].pdu.fc \notin W) => store' = store
          /\ (HandlerStep(c) /\ hpc[c] \in {"readback", "maskset"}) => NormalPath(c)
          /\ (Answers(c) /\ Rsp(c).exc # 0) => (hpc[c] = "exec" /\ store' = store)

\* C13 as stated: only the write functions 5, 6, 15, 16 change the store
C13_Original == [][ChangesOnlyBy({5, 6, 15, 16})]_vars

\* C13: a client request changes the store only if it is a write request
\* (function 5, 6, 15, 16, 22 or 23) that is answered with a normal response;
\* every read request (functions 1-4) and every request answered with an
\* exception response leaves all four banks unchanged, so an out-of-range write
\* multiple request applies no part of its values.
C13_OnlyNormalWritesChange ==
    [][/\ ChangesOnlyBy({5, 6, 15, 16, 22, 23})
       /\ \A c \in Conns :
             (HandlerStep(c) /\ cur[c].pdu.fc \in {15, 16}
                /\ cur[c].pdu.address + cur[c].pdu.count > 99
                /\ cur[c].pdu.count \in 1..123)
             => store' = store]_vars

\* a write multiple registers request (function 16) answered with function
\* code 0x90 and exception 2, the store as it was
C13_Witness ==
    \E c \in Conns :
        /\ out[c] # <<>>
        /\ out[c][1].fc = 144
        /\ out[c][1].exc = 2
        /\ store = TickStore

\* the generator's step from position p to position q
GenStep(p, q) == gpc = p /\ gpc' = q

\* the banks differ at most in the entries of the given addresses
SameExcept(b, addrs) ==
    \A k \in 1..BlockSize : (k - 2) \notin addrs => store'[b][k] = store[b][k]

\* C14 (state part): all 100 input registers are 0, and every discrete input
\* other than discrete input 0 is 0.
C14_InputsZero ==
    /\ store["i"] = [k \in 1..100 |-> 0]
    /\ Len(store["d"]) = 100
    /\ \A k \in 1..100 : k # 2 => store["d"][k] = 0

\* C14: no client request ever changes a value of the discrete-input bank or of
\* the input-register bank: in every reachable state all 100 input registers
\* are 0 and the discrete inputs other than discrete input 0 are 0, and discrete
\* input 0 changes only by a generator tick; the generator itself writes only
\* holding registers 0, 1, 2, coil 0 and discrete input 0.
C14_ReadOnlyBanks ==
    [][/\ C14_InputsZero /\ C14_InputsZero'
       /\ \A c \in Conns :
             HandlerStep(c) => (store'["d"] = store["d"] /\ store'["i"] = store["i"])
       /\ store'["d"] # store["d"] => GenStep("alarm", "sleep")
       /\ gpc' # gpc
          => /\ SameExcept("h", {0, 1, 2})
             /\ SameExcept("c", {0})
             /\ SameExcept("d", {0})
             /\ store'["i"] = store["i"]]_vars

\* a client's coil write was served, and a tick at 27.5 degrees has cleared
\* discrete input 0
C14_Witness ==
    \E c \in Conns :
        /\ out[c] # <<>>
        /\ out[c][1].fc \in {5, 15}
        /\ out[c][1].exc = 0
        /\ gpc = "sleep"
        /\ temperature = 2750
        /\ store["d"][2] = 0
        /\ store["i"][2] = 0

\* the store the server started with (the generator does not run)
StartStore == IF genLast[0] = 280 THEN TickStore ELSE NewStore

\* the last response written on connection c is an exception response with
\* exception code 1 or 2
AfterException(c) ==
    /\ out[c] # <<>>
    /\ out[c][Len(out[c])].exc \in {1, 2}

\* C15: after an exception response (exception code 1 or 2) the connection
\* stays open and the next well-formed request received on the same connection
\* is dispatched and answered as if the failed request had not occurred: the
\* exception response changes nothing but the handler's own state, the next
\* request is handled on the store as it was before the failed request, gets
\* the response that request gets on that store, and no request waits for ever.
C15_ExceptionKeepsSession ==
    [][\A c \in Conns :
          /\ (Answers(c) /\ Rsp(c).exc \in {1, 2})
             => /\ conn[c] = "open" /\ conn'[c] = "open"
                /\ store' = store
                /\ inq' = inq
          /\ (AfterException(c) /\ hpc[c] = "idle" /\ hpc'[c] = "exec")
             => /\ store = StartStore
                /\ cur'[c] = Head(inq[c])
          /\ (AfterException(c) /\ hpc[c] = "exec" /\ hpc'[c] # "exec")
             => store' = StoreAfter(cur[c].pdu, StartStore)
          /\ (AfterException(c) /\ Answers(c))
             => /\ PayloadOf(Rsp(c)) = AnswerOf(cur[c].pdu, MemOf(store'))
                /\ store' = StoreAfter(cur[c].pdu, StartStore)
                /\ Rsp(c).tid = TidOf(1)
          /\ (conn'[c] = "open" /\ hpc'[c] = "idle" /\ inq'[c] = <<>> /\ nrecv'[c] = 0)
             => Len(out'[c]) = nsent'[c]]_vars

\* a request answered with exception 2, then a read of holding registers 0..2
\* answered from the store
C15_Witness ==
    \E c \in Conns :
        /\ conn[c] = "open"
        /\ Len(out[c]) = 2
        /\ out[c][1].exc = 2
        /\ out[c][2].fc = 3
        /\ out[c][2].exc = 0
        /\ out[c][2].values = <<280, 400, 1013>>

\* a complete request frame waits in the receive buffer of connection c
RequestWaiting(c) ==
    /\ conn[c] = "open"
    /\ inq[c] # <<>>
    /\ FrameReady(Head(inq[c]))

\* connection c has a request that is not answered yet: waiting or in the handler
Owed(c) == RequestWaiting(c) \/ hpc[c] # "idle"

\* C16: under fair scheduling the generator ticks infinitely often whatever the
\* peers do, and no tick prevents a pending request from being answered: from
\* every state in which a connection has unanswered requests a state is reached
\* in which it has none (a request leaves the receive buffer only into the
\* handler or when the connection is lost, and leaves the handler only with its
\* response written).
C16_TicksAndAnswers ==
    /\ []<>(gpc = "sleep")
    /\ \A c \in LivePeers : Owed(c) ~> ~Owed(c)

\* a tick has ended while a request waits on a connection
C16_Witness ==
    \E c \in Conns :
        /\ RequestWaiting(c)
        /\ gpc = "sleep"
        /\ genLast = [a \in 0..2 |-> <<280, 400, 1013>>[a + 1]]

\* holding register a, discrete input a
Hr(st, a) == st["h"][a + 2]

Di(st, a) == st["d"][a + 2]

\* C17: at the end of every complete tick discrete input 0 is 1 exactly when
\* that tick's temperature is greater than 28.0; so when no tick is in progress
\* and holding register 0 is as the generator last wrote it, discrete input 0 =
\* 1 implies holding register 0 >= 280 and discrete input 0 = 0 implies holding
\* register 0 <= 280.
C17_AlarmFollowsTemperature ==
    /\ gpc = "sleep" => (Di(store, 0) = 1 <=> temperature > 2800)
    /\ (gpc \in {"sleep", "temp"} /\ Hr(store, 0) = genLast[0])
       => /\ Di(store, 0) \in {0, 1}
          /\ Di(store, 0) = 1 => Hr(store, 0) >= 280
          /\ Di(store, 0) = 0 => Hr(store, 0) <= 280

\* a tick at 28.05 degrees has ended: the alarm is set and register 0 holds 280
C17_Witness ==
    /\ gpc = "sleep"
    /\ temperature = 2805
    /\ Di(store, 0) = 1
    /\ Hr(store, 0) = 280

\* v is x (in hundredths, x >= 0) truncated toward zero
Truncated(v, x) == v * 100 <= x /\ x < (v + 1) * 100

\* C18: each tick stores temperature x 10 and humidity x 10 truncated toward
\* zero in holding registers 0 and 1 and the whole-number part of pressure in
\* holding register 2; for temperature in [20.0, 30.0), humidity in [40.0, 80.0)
\* and pressure in [1000.0, 1020.0) the values written are in 200..299, 400..799
\* and 1000..1019.
C18_TruncatedInRange ==
    [][/\ GenStep("temp", "hum")
          => /\ Truncated(Hr(store', 0), temperature' * 10)
             /\ (2000 <= temperature' /\ temperature' < 3000)
                => Hr(store', 0) \in 200..299
       /\ GenStep("hum", "press")
          => /\ Truncated(Hr(store', 1), humidity' * 10)
             /\ (4000 <= humidity' /\ humidity' < 8000)
                => Hr(store', 1) \in 400..799
       /\ GenStep("press", "status")
          => /\ Truncated(Hr(store', 2), pressure')
             /\ (100000 <= pressure' /\ pressure' < 102000)
                => Hr(store', 2) \in 1000..1019]_vars

\* the top of the three ranges: 29.99 degrees, 79.99 %, 1019.99 hPa
C18_Witness ==
    /\ gpc = "status"
    /\ temperature = 2999 /\ humidity = 7999 /\ pressure = 101999
    /\ Hr(store, 0) = 299 /\ Hr(store, 1) = 799 /\ Hr(store, 2) = 1019

\* Python's round(x) of a float x >= 0 given in hundredths: to the nearest
\* integer, a tie to the even one
PyRound(x) ==
    LET q == x \div 100
        r == x % 100
    IN  IF r < 50 THEN q
        ELSE IF r > 50 THEN q + 1
        ELSE IF q % 2 = 0 THEN q ELSE q + 1

\* C19 as stated: the tick writes round(temperature x 10) and
\* round(humidity x 10)
C19_Original ==
    [][/\ GenStep("temp", "hum") => Hr(store', 0) = PyRound(temperature' * 10)
       /\ GenStep("hum", "press") => Hr(store', 1) = PyRound(humidity' * 10)]_vars

\* C19: each tick writes int(temperature x 10), temperature x 10 with its
\* fraction dropped, to holding register 0 and int(humidity x 10) to holding
\* register 1: the rounded value when rounding rounds down, and one less than
\* the rounded value when rounding rounds up.
C19_WritesIntPart ==
    [][/\ GenStep("temp", "hum")
          => LET x == temperature' * 10 IN
             Hr(store', 0) = PyRound(x) - (IF PyRound(x) * 100 > x THEN 1 ELSE 0)
       /\ GenStep("hum", "press")
          => LET x == humidity' * 10 IN
             Hr(store', 1) = PyRound(x) - (IF PyRound(x) * 100 > x THEN 1 ELSE 0)]_vars

\* 28.06 degrees stored as 280 and 40.06 % as 400, where rounding gives 281, 401
C19_Witness ==
    /\ gpc = "press"
    /\ temperature = 2806 /\ humidity = 4006
    /\ Hr(store, 0) = 280 /\ Hr(store, 1) = 400

====
